---- MODULE Spec2Model ----
(***************************************************************************)
(* A model of healthcareai/develop_supervised_model.py: the class          *)
(* DevelopSupervisedModel (data preparation, resampling, train/test split, *)
(* feature scaling, model fitting, ensemble selection) and the module      *)
(* function prepare_randomized_search.                                     *)
(*                                                                         *)
(* Representation.                                                         *)
(*   - A DataFrame is [none, columns, rows]; a row is [idx, v] with idx    *)
(*     the index label and v a function from column name to cell.  A       *)
(*     Series is a DataFrame with one column.  Python's None is the frame  *)
(*     with none = TRUE.                                                   *)
(*   - A numeric cell is [num, rad] and stands for num / sqrt(rad); a raw  *)
(*     integer x is [x, 1], a missing value (NaN) is [0, 0].  With this    *)
(*     the standard score (x - mean) / std of a column with n values, sum  *)
(*     S and sum of squares Q is exactly [n*x - S, n*Q - S*S].             *)
(*   - Cells of the predicted column are strings: "Y", "N", "U" as read,   *)
(*     "1", "0" once converted to binary.                                  *)
(***************************************************************************)
EXTENDS Integers, Sequences, FiniteSets, TLC

VARIABLES
    attrs,      \* the attributes __init__ sets and no method of the model changes
    dataframe,  \* self.dataframe
    X_train,    \* self.X_train
    X_test,     \* self.X_test
    y_train,    \* self.y_train
    y_test,     \* self.y_test
    results,    \* self.results
    ret         \* the last call: [op, args, status, exc, value, log]

vars == <<attrs, dataframe, X_train, X_test, y_train, y_test, results, ret>>

----------------------------------------------------------------------------
(* Bounds of the model *)

MaxRows == 5

----------------------------------------------------------------------------
(* Values *)

Raw(x) == [num |-> x, rad |-> 1]

NaN == [num |-> 0, rad |-> 0]

IsNaN(c) == c.rad = 0

NoneFrame == [none |-> TRUE, columns |-> <<>>, rows |-> <<>>]

Frame(cols, rs) == [none |-> FALSE, columns |-> cols, rows |-> rs]

NoneResults == [none |-> TRUE, best_score |-> <<0, 1>>, best_algorithm_name |-> "",
                model_scores |-> <<>>, best_model |-> [estimator |-> "", predictor |-> ""]]

Range(s) == {s[i] : i \in DOMAIN s}

RECURSIVE SelectSeq2(_, _)
\* The elements of s at the positions idxs (a sequence of positions), in that order.
SelectSeq2(s, idxs) ==
    IF idxs = <<>> THEN <<>>
    ELSE <<s[Head(idxs)]>> \o SelectSeq2(s, Tail(idxs))

RECURSIVE FilterSeq(_, _)
\* The names of cols that are not in drop, in order.
FilterSeq(cols, drop) ==
    IF cols = <<>> THEN <<>>
    ELSE (IF Head(cols) \in drop THEN <<>> ELSE <<Head(cols)>>) \o FilterSeq(Tail(cols), drop)

\* DataFrame.drop(columns, axis=1): a copy without the named columns.
DropColumns(df, drop) ==
    LET cols == FilterSeq(df.columns, drop)
    IN Frame(cols,
             [i \in DOMAIN df.rows |->
                 [idx |-> df.rows[i].idx,
                  v   |-> [c \in Range(cols) |-> df.rows[i].v[c]]]])

\* DataFrame[[columns]]: a copy with only the named columns, in the order asked.
KeepColumns(df, cols) ==
    Frame(cols,
          [i \in DOMAIN df.rows |->
              [idx |-> df.rows[i].idx,
               v   |-> [c \in Range(cols) |-> df.rows[i].v[c]]]])

----------------------------------------------------------------------------
(* The object after construction *)

predicted_column == "target"

grain_column_name == "id"

model_type == "classification"

InitColumns == <<"id", "admitDTS", "a", "target">>

\* The contents a row of the input data can have: feature a and the target.
RowKinds == <<
    [a |-> Raw(1), target |-> "Y"],
    [a |-> Raw(3), target |-> "N"],
    [a |-> NaN,    target |-> "N"],
    [a |-> Raw(2), target |-> "U"] >>

MakeRow(i, k) ==
    [idx |-> i - 1,
     v   |-> [c \in Range(InitColumns) |->
                CASE c = "id"       -> Raw(100 + i)
                  [] c = "admitDTS" -> Raw(7)
                  [] c = "a"        -> RowKinds[k].a
                  [] c = "target"   -> RowKinds[k].target]]

\* Input dataframes: 1..MaxRows rows with a RangeIndex, the rows grouped by kind.
Dataframes ==
    UNION { { Frame(InitColumns, [i \in 1..n |-> MakeRow(i, ks[i])]) :
                ks \in { f \in [1..n -> DOMAIN RowKinds] :
                            \A i \in 1..n, j \in 1..n : i < j => f[i] <= f[j] } } :
            n \in 1..MaxRows }

Ret(op, args, status, exc, value, log) ==
    [op |-> op, args |-> args, status |-> status, exc |-> exc, value |-> value, log |-> log]

\* A few input dataframes: three Y and one N; three classes; a row with a missing
\* value; two rows.
SampleKinds == {<<1, 1, 1, 2>>, <<1, 2, 2, 4>>, <<1, 1, 2, 3>>, <<1, 2>>}

SampleDataframes ==
    {Frame(InitColumns, [i \in DOMAIN ks |-> MakeRow(i, ks[i])]) : ks \in SampleKinds}

OneDataframe == Frame(InitColumns, [i \in 1..2 |-> MakeRow(i, i)])

\* __init__: stores its arguments and sets every other attribute to None.
InitWith(frames) ==
    /\ dataframe \in frames
    /\ attrs = [predicted_column |-> predicted_column,
                grain_column_name |-> grain_column_name, model_type |-> model_type,
                verbose |-> FALSE,
                y_probab_linear |-> "None", y_probab_rf |-> "None", col_list |-> "None",
                rfclf |-> "None", au_roc |-> "None"]
    /\ X_train = NoneFrame
    /\ X_test = NoneFrame
    /\ y_train = NoneFrame
    /\ y_test = NoneFrame
    /\ results = NoneResults
    /\ ret = Ret("__init__", <<>>, "ok", "", "None", <<>>)

Init == InitWith(Dataframes)

----------------------------------------------------------------------------
(* data_preparation_pipeline *)

\* Column names with the date-time suffix DTS.
DTSColumns == {"admitDTS"}

\* DataframeDateTimeColumnSuffixFilter: drops the columns whose name ends in DTS.
DataframeDateTimeColumnSuffixFilter(df) == DropColumns(df, DTSColumns)

\* DataframeGrainColumnDataFilter(grain): drops the grain column.
DataframeGrainColumnDataFilter(df) == DropColumns(df, {grain_column_name})

ColumnValues(df, c) == [i \in DOMAIN df.rows |-> df.rows[i].v[c]]

\* The most frequent non-missing cell of a column (the smallest on a tie), NaN if none.
ColumnFill(df, c) ==
    LET vals  == ColumnValues(df, c)
        known == {vals[i] : i \in {j \in DOMAIN vals : ~IsNaN(vals[j])}}
        count(x) == Cardinality({i \in DOMAIN vals : vals[i] = x})
    IN IF known = {} THEN NaN
       ELSE CHOOSE x \in known :
                \A z \in known : count(z) < count(x) \/ (count(z) = count(x) /\ x.num <= z.num)

\* DataFrameImputer: fills the missing cells of every feature column.
DataFrameImputer(df) ==
    Frame(df.columns,
          [i \in DOMAIN df.rows |->
              [idx |-> df.rows[i].idx,
               v   |-> [c \in Range(df.columns) |->
                          IF c # predicted_column /\ IsNaN(df.rows[i].v[c])
                          THEN ColumnFill(df, c) ELSE df.rows[i].v[c]]]])

RowHasNull(df, r) == \E c \in Range(df.columns) : c # predicted_column /\ IsNaN(r.v[c])

\* DataframeNullValueFilter(excluded_columns=None): drops the rows with a missing value.
DataframeNullValueFilter(df) ==
    Frame(df.columns, SelectSeq(df.rows, LAMBDA r : ~RowHasNull(df, r)))

\* DataFrameConvertTargetToBinary(model_type, predicted_column): Y -> 1, N -> 0.
DataFrameConvertTargetToBinary(df) ==
    IF model_type # "classification" THEN df
    ELSE Frame(df.columns,
          [i \in DOMAIN df.rows |->
              [idx |-> df.rows[i].idx,
               v   |-> [c \in Range(df.columns) |->
                          IF c # predicted_column THEN df.rows[i].v[c]
                          ELSE CASE df.rows[i].v[c] = "Y" -> "1"
                                 [] df.rows[i].v[c] = "N" -> "0"
                                 [] OTHER -> df.rows[i].v[c]]]])

\* DataFrameCreateDummyVariables(predicted_column): one indicator column per level of
\* each categorical feature column; the numeric columns pass through.
DataFrameCreateDummyVariables(df) == df

ApplyStep(name, df) ==
    CASE name = "dts_filter"               -> DataframeDateTimeColumnSuffixFilter(df)
      [] name = "grain_column_filter"      -> DataframeGrainColumnDataFilter(df)
      [] name = "imputer"                  -> DataFrameImputer(df)
      [] name = "null_row_filter"          -> DataframeNullValueFilter(df)
      [] name = "convert_target_to_binary" -> DataFrameConvertTargetToBinary(df)
      [] name = "dummify"                  -> DataFrameCreateDummyVariables(df)

RECURSIVE fit_transform(_, _)
\* Pipeline.fit_transform: each step's fit_transform applied to the output of the last.
fit_transform(steps, df) ==
    IF steps = <<>> THEN df
    ELSE fit_transform(Tail(steps), ApplyStep(Head(steps), df))

\* Mutant: the null-row filter runs before the imputer.
data_preparation_steps_FilterFirst(impute) ==
    <<"dts_filter", "grain_column_filter", "null_row_filter">>
    \o (IF impute = TRUE THEN <<"imputer">> ELSE <<>>)
    \o <<"convert_target_to_binary", "dummify">>

\* The transformers data_preparation_pipeline runs, in the order it runs them.
data_preparation_steps(impute) ==
    <<"dts_filter", "grain_column_filter">>
    \o (IF impute = TRUE THEN <<"imputer">> ELSE <<>>)
    \o <<"null_row_filter", "convert_target_to_binary", "dummify">>

data_preparation_pipeline(impute) ==
    LET steps == data_preparation_steps(impute)
        out   == fit_transform(steps, dataframe)
    IN /\ dataframe' = out
       /\ ret' = Ret("data_preparation_pipeline", <<impute>>, "ok", "", out, steps)
       /\ UNCHANGED <<attrs, X_train, X_test, y_train, y_test, results>>

----------------------------------------------------------------------------
(* train_test_split *)

\* y = np.squeeze(self.dataframe[[self.predicted_column]])
TargetOf(df) == KeepColumns(df, <<predicted_column>>)

\* X = self.dataframe.drop([self.predicted_column], axis=1)
FeaturesOf(df) == DropColumns(df, {predicted_column})

\* test_size=.20, in percent
test_size == 20

\* random_state=0
split_random_state == 0

\* The number of test rows the library takes of n: ceil(test_size * n).
n_test(n) == (n * test_size + 99) \div 100

\* The shuffle of 1..n the library draws with random_state 0 (positions, 1-based).
ShufflePermutation(n) ==
    CASE n = 1  -> <<1>>
      [] n = 2  -> <<2, 1>>
      [] n = 3  -> <<3, 2, 1>>
      [] n = 4  -> <<3, 4, 2, 1>>
      [] n = 5  -> <<3, 1, 2, 4, 5>>
      [] n = 6  -> <<6, 3, 2, 4, 1, 5>>
      [] n = 7  -> <<7, 3, 2, 4, 1, 6, 5>>
      [] n = 8  -> <<7, 3, 2, 8, 4, 1, 6, 5>>
      [] n = 9  -> <<8, 3, 2, 5, 9, 7, 4, 1, 6>>
      [] n = 10 -> <<3, 9, 5, 10, 2, 7, 8, 4, 1, 6>>
      [] n = 11 -> <<5, 10, 3, 11, 7, 2, 8, 9, 4, 1, 6>>
      [] n = 12 -> <<7, 12, 5, 11, 3, 9, 2, 8, 10, 4, 1, 6>>
      [] n = 13 -> <<7, 12, 5, 11, 3, 9, 2, 8, 10, 4, 1, 6, 13>>
      [] n = 14 -> <<9, 7, 5, 12, 3, 14, 10, 2, 8, 11, 4, 1, 6, 13>>

\* The positions of the test rows: the first n_test of the shuffle.
TestPositions(n) == SubSeq(ShufflePermutation(n), 1, n_test(n))

\* Mutant: the train rows start one position early and share a row with the test rows.
TrainPositions_Overlapping(n) == SubSeq(ShufflePermutation(n), n_test(n), n)

\* The positions of the train rows: the rest of the shuffle.
TrainPositions(n) == SubSeq(ShufflePermutation(n), n_test(n) + 1, n)

TakeRows(df, positions) == Frame(df.columns, SelectSeq2(df.rows, positions))

\* model_selection.train_test_split refuses an empty input and an empty train set.
SplitRaises(n) == n = 0 \/ n - n_test(n) = 0

train_test_split ==
    LET y == TargetOf(dataframe)
        X == FeaturesOf(dataframe)
        n == Len(dataframe.rows)
    IN IF SplitRaises(n)
       THEN /\ ret' = Ret("train_test_split", <<>>, "raise", "ValueError", "None", <<>>)
            /\ UNCHANGED <<attrs, dataframe, X_train, X_test, y_train, y_test, results>>
       ELSE /\ X_train' = TakeRows(X, TrainPositions(n))
            /\ X_test'  = TakeRows(X, TestPositions(n))
            /\ y_train' = TakeRows(y, TrainPositions(n))
            /\ y_test'  = TakeRows(y, TestPositions(n))
            /\ ret' = Ret("train_test_split", <<>>, "ok", "", "None", <<>>)
            /\ UNCHANGED <<attrs, dataframe, results>>

----------------------------------------------------------------------------
(* under_sampling, over_sampling *)

\* The values of random_state a caller passes.
RandomStates == {0, 1}

\* The order in which the classes are laid out in the resampled data.
ClassOrder == <<"0", "1", "N", "U", "Y">>

ClassPositions(y, c) ==
    LET RECURSIVE pos(_)
        pos(i) == IF i > Len(y.rows) THEN <<>>
                  ELSE (IF y.rows[i].v[predicted_column] = c THEN <<i>> ELSE <<>>) \o pos(i + 1)
    IN pos(1)

ClassCounts(y) == {Len(ClassPositions(y, ClassOrder[k])) : k \in DOMAIN ClassOrder} \ {0}

MinSet(S) == CHOOSE x \in S : \A z \in S : x <= z

MaxSet(S) == CHOOSE x \in S : \A z \in S : z <= x

\* The draw of m of the positions ps made with the given random_state (with
\* replacement when m exceeds their number).
Draw(ps, m, random_state) ==
    [j \in 1..m |-> ps[((random_state + j - 1) % Len(ps)) + 1]]

RECURSIVE Concat(_, _)
Concat(f, k) == IF k = 0 THEN <<>> ELSE Concat(f, k - 1) \o f[k]

\* RandomUnderSampler.fit_sample: every class cut down to the size of the smallest.
UnderSampledPositions(y, random_state) ==
    LET m == MinSet(ClassCounts(y))
        per == [k \in DOMAIN ClassOrder |->
                  LET ps == ClassPositions(y, ClassOrder[k])
                  IN IF ps = <<>> THEN <<>>
                     ELSE IF Len(ps) = m THEN ps
                     ELSE Draw(ps, m, random_state)]
    IN Concat(per, Len(ClassOrder))

\* RandomOverSampler.fit_sample: every class filled up to the size of the largest
\* with repeated rows, after the rows given.
OverSampledPositions(y, random_state) ==
    LET m == MaxSet(ClassCounts(y))
        per == [k \in DOMAIN ClassOrder |->
                  LET ps == ClassPositions(y, ClassOrder[k])
                  IN IF ps = <<>> THEN <<>>
                     ELSE Draw(ps, m - Len(ps), random_state)]
    IN [i \in 1..Len(y.rows) |-> i] \o Concat(per, Len(ClassOrder))

\* The samplers refuse empty data and data with missing values.
SamplerRaises(X) ==
    \/ X.rows = <<>>
    \/ \E i \in DOMAIN X.rows : \E c \in Range(X.columns) : IsNaN(X.rows[i].v[c])

\* pd.DataFrame(X_sampled) with X's columns, then the predicted column set from
\* pd.Series(y_sampled): a new frame with a fresh RangeIndex.
Resampled(X, y, positions) ==
    Frame(X.columns \o <<predicted_column>>,
          [i \in 1..Len(positions) |->
              [idx |-> i - 1,
               v   |-> [c \in Range(X.columns) \cup {predicted_column} |->
                          IF c = predicted_column
                          THEN y.rows[positions[i]].v[c]
                          ELSE X.rows[positions[i]].v[c]]]])

\* Mutant: the under-sampled data is also split into the partitions.
under_sampling_Resplits(random_state) ==
    LET y == TargetOf(dataframe)
        X == FeaturesOf(dataframe)
        out == Resampled(X, y, UnderSampledPositions(y, random_state))
        n == Len(out.rows)
    IN /\ ~SamplerRaises(X)
       /\ dataframe' = out
       /\ X_train' = TakeRows(FeaturesOf(out), TrainPositions(n))
       /\ X_test' = TakeRows(FeaturesOf(out), TestPositions(n))
       /\ y_train' = TakeRows(TargetOf(out), TrainPositions(n))
       /\ y_test' = TakeRows(TargetOf(out), TestPositions(n))
       /\ ret' = Ret("under_sampling", <<random_state>>, "ok", "", "None", <<>>)
       /\ UNCHANGED <<attrs, results>>

under_sampling(random_state) ==
    LET y == TargetOf(dataframe)
        X == FeaturesOf(dataframe)
    IN IF SamplerRaises(X)
       THEN /\ ret' = Ret("under_sampling", <<random_state>>, "raise", "ValueError", "None", <<>>)
            /\ UNCHANGED <<attrs, dataframe, X_train, X_test, y_train, y_test, results>>
       ELSE /\ dataframe' = Resampled(X, y, UnderSampledPositions(y, random_state))
            /\ ret' = Ret("under_sampling", <<random_state>>, "ok", "", "None", <<>>)
            /\ UNCHANGED <<attrs, X_train, X_test, y_train, y_test, results>>

over_sampling(random_state) ==
    LET y == TargetOf(dataframe)
        X == FeaturesOf(dataframe)
    IN IF SamplerRaises(X)
       THEN /\ ret' = Ret("over_sampling", <<random_state>>, "raise", "ValueError", "None", <<>>)
            /\ UNCHANGED <<attrs, dataframe, X_train, X_test, y_train, y_test, results>>
       ELSE /\ dataframe' = Resampled(X, y, OverSampledPositions(y, random_state))
            /\ ret' = Ret("over_sampling", <<random_state>>, "ok", "", "None", <<>>)
            /\ UNCHANGED <<attrs, X_train, X_test, y_train, y_test, results>>

----------------------------------------------------------------------------
(* feature_scaling *)

RECURSIVE SumSeq(_)
SumSeq(s) == IF s = <<>> THEN 0 ELSE Head(s) + SumSeq(Tail(s))

\* StandardScaler().fit(frame): per column the number k, sum S and sum of squares Q
\* of the numerators of the cells that are not missing.
ScalerFit(frame) ==
    [c \in Range(frame.columns) |->
        LET vals == SelectSeq(ColumnValues(frame, c), LAMBDA x : ~IsNaN(x))
            nums == [i \in DOMAIN vals |-> vals[i].num]
            rads == {vals[i].rad : i \in DOMAIN vals}
        IN [rad |-> IF rads = {} THEN 1 ELSE MaxSet(rads),
            k |-> Len(vals),
            S |-> SumSeq(nums),
            Q |-> SumSeq([i \in DOMAIN nums |-> nums[i] * nums[i]])]]

\* scaler.transform of one cell: (x - mean) / scale, scale being 1 for a constant
\* column; a missing cell stays missing, and so does every cell when nothing was fitted.
ScalerTransformCell(st, x) ==
    IF IsNaN(x) \/ st.k = 0 THEN NaN
    ELSE LET var == st.k * st.Q - st.S * st.S
         IN [num |-> st.k * x.num - st.S,
             rad |-> IF var = 0 THEN st.k * st.k * st.rad ELSE var]

\* frame[columns_to_scale] = scaled: the named columns replaced, index and the other
\* columns as they were.
AssignScaled(frame, scaler, columns_to_scale) ==
    Frame(frame.columns,
          [i \in DOMAIN frame.rows |->
              [idx |-> frame.rows[i].idx,
               v   |-> [c \in Range(frame.columns) |->
                          IF c \in Range(columns_to_scale)
                          THEN ScalerTransformCell(scaler[c], frame.rows[i].v[c])
                          ELSE frame.rows[i].v[c]]]])

\* Mutant: the scaler is fitted on the test subset.
ScalerFitSubset_OnTest(columns_to_scale) == KeepColumns(X_test, columns_to_scale)

\* The frame the scaler is fitted on.
ScalerFitSubset(columns_to_scale) == KeepColumns(X_train, columns_to_scale)

\* The model scales a column only while its cells are raw integers.
IsRawColumn(frame, c) == \A i \in DOMAIN frame.rows : frame.rows[i].v[c].rad <= 1

\* Whether a cell of the named columns is missing.
HasMissing(frame, columns_to_scale) ==
    \E i \in DOMAIN frame.rows : \E c \in Range(columns_to_scale) : IsNaN(frame.rows[i].v[c])

\* The lists of columns a caller asks to scale.
ColumnLists == {<<"a">>, <<"id">>, <<"id", "a">>, <<"zz">>}

feature_scaling(columns_to_scale) ==
    IF X_train.none
    THEN /\ ret' = Ret("feature_scaling", <<columns_to_scale>>, "raise", "TypeError", "None", <<>>)
         /\ UNCHANGED <<attrs, dataframe, X_train, X_test, y_train, y_test, results>>
    ELSE IF ~(Range(columns_to_scale) \subseteq Range(X_train.columns))
    THEN /\ ret' = Ret("feature_scaling", <<columns_to_scale>>, "raise", "KeyError", "None", <<>>)
         /\ UNCHANGED <<attrs, dataframe, X_train, X_test, y_train, y_test, results>>
    ELSE /\ \A c \in Range(columns_to_scale) : IsRawColumn(X_train, c) /\ IsRawColumn(X_test, c)
         /\ LET scaler == ScalerFit(ScalerFitSubset(columns_to_scale))
            IN \/ /\ X_train' = AssignScaled(X_train, scaler, columns_to_scale)
                  /\ X_test'  = AssignScaled(X_test, scaler, columns_to_scale)
                  /\ ret' = Ret("feature_scaling", <<columns_to_scale>>, "ok", "", "None", <<>>)
               \* a scaler that refuses missing values raises in fit, before any assignment
               \/ /\ HasMissing(X_train, columns_to_scale)
                  /\ UNCHANGED <<X_train, X_test>>
                  /\ ret' = Ret("feature_scaling", <<columns_to_scale>>, "raise", "ValueError", "None", <<>>)
               \* or in the transform of the test subset, after self.X_train is assigned
               \/ /\ ~HasMissing(X_train, columns_to_scale)
                  /\ HasMissing(X_test, columns_to_scale)
                  /\ X_train' = AssignScaled(X_train, scaler, columns_to_scale)
                  /\ UNCHANGED X_test
                  /\ ret' = Ret("feature_scaling", <<columns_to_scale>>, "raise", "ValueError", "None", <<>>)
         /\ UNCHANGED <<attrs, dataframe, y_train, y_test, results>>

----------------------------------------------------------------------------
(* prepare_randomized_search and the estimators it builds *)

\* Python values passed as randomized_search, and those of them that are truthy.
SearchFlags == {"True", "False", "None", "0", "1", "'yes'", "''"}

Truthy(v) == v \in {"True", "1", "'yes'"}

\* A scoring metric is a str object: its text, and whether it is the very object of
\* the literal 'roc_auc' of this module (an interned literal is; a str built at run
\* time with the same text is not).
Metric(name, literal) == [name |-> name, literal |-> literal]

roc_auc == Metric("roc_auc", TRUE)

Metrics == {roc_auc, Metric("roc_auc", FALSE), Metric("accuracy", FALSE),
            Metric("roc_auc_score", FALSE)}

\* A hyperparameter grid is None or a dict; of a dict the model keeps its keys.
Grid(keys) == [none |-> FALSE, keys |-> keys]

NoneGrid == [none |-> TRUE, keys |-> {}]

CustomGrid == Grid({"custom"})

Grids == {NoneGrid, CustomGrid}

Estimators == {"KNeighborsClassifier", "LogisticRegressionCV", "LinearRegression",
               "RandomForestClassifier", "RandomForestRegressor"}

\* The keyword parameters of the library's estimator constructors.
ConstructorParams(estimator) ==
    CASE estimator = "KNeighborsClassifier" ->
            {"n_neighbors", "weights", "algorithm", "leaf_size", "p", "metric",
             "metric_params", "n_jobs"}
      [] estimator = "LogisticRegressionCV" ->
            {"Cs", "fit_intercept", "cv", "dual", "penalty", "scoring", "solver", "tol",
             "max_iter", "class_weight", "n_jobs", "verbose", "refit",
             "intercept_scaling", "random_state"}
      [] estimator = "LinearRegression" ->
            {"fit_intercept", "copy_X", "n_jobs"}
      [] estimator \in {"RandomForestClassifier", "RandomForestRegressor"} ->
            {"n_estimators", "criterion", "max_depth", "min_samples_split",
             "min_samples_leaf", "max_features", "max_leaf_nodes", "bootstrap",
             "oob_score", "n_jobs", "random_state", "verbose", "warm_start"}

\* An algorithm object, or the exception raised instead of one.  kind is the class
\* of the object, estimator the class it wraps (itself, for a plain estimator),
\* params the keyword arguments the estimator was constructed with.
Algorithm(kind, estimator, params, scoring, grid, n_iter, cv) ==
    [estimator |-> estimator, kind |-> kind, params |-> params, scoring |-> scoring,
     n_iter |-> n_iter, cv |-> cv, raised |-> "", param_distributions |-> grid,
     fitted |-> FALSE, fit_X |-> NoneFrame, fit_y |-> NoneFrame]

Raised(exc) ==
    [estimator |-> "", kind |-> "", params |-> {}, scoring |-> Metric("", FALSE),
     n_iter |-> 0, cv |-> 0, raised |-> exc, param_distributions |-> NoneGrid,
     fitted |-> FALSE, fit_X |-> NoneFrame, fit_y |-> NoneFrame]

\* estimator(**kwargs): a TypeError on a keyword the constructor does not take.
Construct(estimator, kwargs) ==
    IF {kw[1] : kw \in kwargs} \subseteq ConstructorParams(estimator)
    THEN Algorithm(estimator, estimator, kwargs, Metric("", FALSE), NoneGrid, 0, 0)
    ELSE Raised("TypeError")

\* The settings prepare_randomized_search fixes for the search.
search_n_iter == 2

search_cv == 5

\* Mutant: the branch taken only for the value True itself.
UsesRandomizedSearch_OnlyTrue(randomized_search) == randomized_search = "True"

\* The branch prepare_randomized_search takes.
UsesRandomizedSearch(randomized_search) == Truthy(randomized_search)

\* The keyword arguments handed to the plain estimator.
PlainEstimatorKwargs(non_randomized_estimator_kwargs) == non_randomized_estimator_kwargs

prepare_randomized_search(estimator, scoring_metric, hyperparameter_grid, randomized_search, kwargs) ==
    IF UsesRandomizedSearch(randomized_search)
    THEN LET inner == Construct(estimator, {})
         IN Algorithm("RandomizedSearchCV", inner.estimator, inner.params, scoring_metric,
                      hyperparameter_grid, search_n_iter, search_cv)
    ELSE Construct(estimator, PlainEstimatorKwargs(kwargs))

\* algorithm.fit(X, y).  The library refuses data that is None and a randomized
\* search whose param_distributions is None; what it asks of the amount of data is
\* not modelled.
Fit(algorithm, X, y) ==
    IF algorithm.raised # "" THEN algorithm
    ELSE IF algorithm.kind = "RandomizedSearchCV" /\ algorithm.param_distributions.none
         THEN Raised("TypeError")
    ELSE IF X.none \/ y.none THEN Raised("ValueError")
    ELSE [algorithm EXCEPT !.fitted = TRUE, !.fit_X = X, !.fit_y = y]

----------------------------------------------------------------------------
(* The model-fitting methods *)

\* Values of trees a caller passes.
Trees == {10, 200}

\* The call a fitting method makes to prepare_randomized_search.
Call(estimator, scoring_metric, grid, randomized_search, kwargs) ==
    [estimator |-> estimator, kwargs |-> kwargs, randomized_search |-> randomized_search,
     scoring_metric |-> scoring_metric, hyperparameter_grid |-> grid]

Prepare(call) ==
    prepare_randomized_search(call.estimator, call.scoring_metric, call.hyperparameter_grid,
                              call.randomized_search, call.kwargs)

\* The grid logistic_regression hands on: its `if hyperparameter_grid is None` sets none.
logistic_regression_grid(hyperparameter_grid) == hyperparameter_grid

\* The grid linear_regression hands on: its `if hyperparameter_grid is None` sets none.
linear_regression_grid(hyperparameter_grid) == hyperparameter_grid

\* The grid knn hands on.
knn_grid(hyperparameter_grid) ==
    IF hyperparameter_grid.none THEN Grid({"n_neighbors", "weights"}) ELSE hyperparameter_grid

\* The grid the random forest methods hand on.
random_forest_grid(hyperparameter_grid) ==
    IF hyperparameter_grid.none THEN Grid({"n_estimators", "max_features"})
    ELSE hyperparameter_grid

logistic_regression_call(scoring_metric, hyperparameter_grid, randomized_search) ==
    Call("LogisticRegressionCV", scoring_metric, logistic_regression_grid(hyperparameter_grid),
         randomized_search, {<<"cv", 5>>})

linear_regression_call(scoring_metric, hyperparameter_grid, randomized_search) ==
    Call("LinearRegression", scoring_metric, linear_regression_grid(hyperparameter_grid),
         randomized_search, {})

knn_call(scoring_metric, hyperparameter_grid, randomized_search) ==
    Call("KNeighborsClassifier", scoring_metric, knn_grid(hyperparameter_grid),
         randomized_search, {<<"n_neighbors", 5>>})

random_forest_classifier_call(trees, scoring_metric, hyperparameter_grid, randomized_search) ==
    Call("RandomForestClassifier", scoring_metric, random_forest_grid(hyperparameter_grid),
         randomized_search, {<<"trees", trees>>})

random_forest_regressor_call(trees, scoring_metric, hyperparameter_grid, randomized_search) ==
    Call("RandomForestRegressor", scoring_metric, random_forest_grid(hyperparameter_grid),
         randomized_search, {<<"trees", trees>>})

\* Mutant: the algorithm is fitted on the held-out partition.
FitOnTrain_OnTest(call) == Fit(Prepare(call), X_test, y_test)

\* algorithm = prepare_randomized_search(...); algorithm.fit(self.X_train, self.y_train)
FitOnTrain(call) == Fit(Prepare(call), X_train, y_train)

logistic_regression(scoring_metric, hyperparameter_grid, randomized_search) ==
    FitOnTrain(logistic_regression_call(scoring_metric, hyperparameter_grid, randomized_search))

linear_regression(scoring_metric, hyperparameter_grid, randomized_search) ==
    FitOnTrain(linear_regression_call(scoring_metric, hyperparameter_grid, randomized_search))

knn(scoring_metric, hyperparameter_grid, randomized_search) ==
    FitOnTrain(knn_call(scoring_metric, hyperparameter_grid, randomized_search))

\* With no grid given the random forest methods read len(self.X_test.columns) first.
random_forest_classifier(trees, scoring_metric, hyperparameter_grid, randomized_search) ==
    IF hyperparameter_grid.none /\ X_test.none THEN Raised("AttributeError")
    ELSE FitOnTrain(random_forest_classifier_call(trees, scoring_metric, hyperparameter_grid,
                                                  randomized_search))

random_forest_regressor(trees, scoring_metric, hyperparameter_grid, randomized_search) ==
    IF hyperparameter_grid.none /\ X_test.none THEN Raised("AttributeError")
    ELSE FitOnTrain(random_forest_regressor_call(trees, scoring_metric, hyperparameter_grid,
                                                 randomized_search))

\* A method that returns the algorithm it fitted, or raises; nothing else changes.
Returns(op, args, algorithm, calls) ==
    /\ ret' = Ret(op, args, IF algorithm.raised = "" THEN "ok" ELSE "raise", algorithm.raised,
                  algorithm, calls)
    /\ UNCHANGED <<attrs, dataframe, X_train, X_test, y_train, y_test, results>>

LogisticRegression(m, g, rs) ==
    Returns("logistic_regression", <<m, g, rs>>, logistic_regression(m, g, rs),
            <<logistic_regression_call(m, g, rs)>>)

LinearRegression(m, g, rs) ==
    Returns("linear_regression", <<m, g, rs>>, linear_regression(m, g, rs),
            <<linear_regression_call(m, g, rs)>>)

Knn(m, g, rs) ==
    Returns("knn", <<m, g, rs>>, knn(m, g, rs), <<knn_call(m, g, rs)>>)

RandomForestClassifier(t, m, g, rs) ==
    Returns("random_forest_classifier", <<m, g, rs, t>>, random_forest_classifier(t, m, g, rs),
            IF g.none /\ X_test.none THEN <<>>
            ELSE <<random_forest_classifier_call(t, m, g, rs)>>)

RandomForestRegressor(t, m, g, rs) ==
    Returns("random_forest_regressor", <<m, g, rs, t>>, random_forest_regressor(t, m, g, rs),
            IF g.none /\ X_test.none THEN <<>>
            ELSE <<random_forest_regressor_call(t, m, g, rs)>>)

\* Keyword arguments a caller of prepare_randomized_search passes.
KwargSets == {{}, {<<"n_neighbors", 5>>}, {<<"cv", 5>>}, {<<"trees", 200>>},
              {<<"n_estimators", 10>>}}

\* A direct call of the module function.
PrepareRandomizedSearch(e, m, g, rs, kw) ==
    LET call == Call(e, m, g, rs, kw)
        algorithm == Prepare(call)
    IN Returns("prepare_randomized_search", <<m, g, rs>>, algorithm, <<call>>)

----------------------------------------------------------------------------
(* Scoring and ensemble_classification *)

\* count_unique_elements_in_column: the number of distinct values of the column.
count_unique_elements_in_column(df, column) ==
    Cardinality({df.rows[i].v[column] : i \in DOMAIN df.rows})

\* `metric is 'roc_auc'`: object identity with the literal, not equality of text.
IsRocAucLiteral(metric) == metric.name = "roc_auc" /\ metric.literal

\* validate_score_metric_for_number_of_classes: TRUE when it raises HealthcareAIError.
validate_score_metric_for_number_of_classes(metric) ==
    LET classes == count_unique_elements_in_column(dataframe, predicted_column)
    IN IF classes = 2 THEN FALSE
       ELSE classes > 2 /\ IsRocAucLiteral(metric)

\* What a fitted model has learned, as far as predict shows it: the class it gives
\* a row.  The library decides it; the model draws it from these.
Predictors == {"AlwaysOne", "AlwaysZero", "Threshold"}

Predict(predictor, row) ==
    CASE predictor = "AlwaysOne"  -> "1"
      [] predictor = "AlwaysZero" -> "0"
      [] predictor = "Threshold"  -> IF row.v["a"].num >= 2 THEN "0" ELSE "1"

Entry(name, estimator, predictor) ==
    [name |-> name, model |-> [estimator |-> estimator, predictor |-> predictor]]

\* model_by_name as a caller passes it: None, or a dict of fitted models in
\* insertion order.
NoneDict == [none |-> TRUE, items |-> <<>>]

Dict(items) == [none |-> FALSE, items |-> items]

ModelDicts ==
    {NoneDict,
     Dict(<<>>),
     Dict(<<Entry("A", "KNeighborsClassifier", "AlwaysOne"),
            Entry("B", "LogisticRegressionCV", "Threshold")>>),
     Dict(<<Entry("B", "LogisticRegressionCV", "Threshold"),
            Entry("C", "RandomForestClassifier", "AlwaysZero"),
            Entry("A", "KNeighborsClassifier", "AlwaysOne")>>)}

\* The metrics library raises unless y_test holds the two classes 0 and 1, and predict
\* raises on data that is None.
MetricRaises ==
    \/ X_test.none
    \/ {y_test.rows[i].v[predicted_column] : i \in DOMAIN y_test.rows} # {"0", "1"}

\* calculate_classification_metric(trained_model): the dict it returns, each score a
\* fraction <<numerator, denominator>>.  It computes both scores whatever metric the
\* caller is after: it takes no metric from ensemble_classification.
calculate_classification_metric(model) ==
    LET label(i) == y_test.rows[i].v[predicted_column]
        pred(i)  == Predict(model.predictor, X_test.rows[i])
        P  == Cardinality({i \in DOMAIN y_test.rows : label(i) = "1"})
        N  == Cardinality({i \in DOMAIN y_test.rows : label(i) = "0"})
        TP == Cardinality({i \in DOMAIN y_test.rows : label(i) = "1" /\ pred(i) = "1"})
        TN == Cardinality({i \in DOMAIN y_test.rows : label(i) = "0" /\ pred(i) = "0"})
    IN [roc_auc_score |-> <<TP * N + TN * P, 2 * P * N>>,
        accuracy      |-> <<TP + TN, Len(y_test.rows)>>]

\* The keys of the dict calculate_classification_metric returns.
MetricKeys == {"roc_auc_score", "accuracy"}

\* score[scoring_metric]
ScoreOf(score, scoring_metric) ==
    IF scoring_metric.name = "accuracy" THEN score.accuracy ELSE score.roc_auc_score

LessEq(p, q) == p[1] * q[2] <= q[1] * p[2]

\* sorted(score_by_name.items(), key=lambda x: x[1])[-1]: the position of the highest
\* score, the last of them in the dict's order when several are equal (the sort is
\* stable).
BestPosition(scores) ==
    CHOOSE i \in DOMAIN scores :
        /\ \A j \in DOMAIN scores : LessEq(scores[j], scores[i])
        /\ \A j \in DOMAIN scores : (j > i) => ~LessEq(scores[i], scores[j])

\* Fitted classifiers a caller hands to calculate_classification_metric.
TrainedClassifiers == {[estimator |-> "KNeighborsClassifier", predictor |-> p] : p \in Predictors}

\* calculate_classification_metric called by itself: it returns the dict or raises,
\* and assigns nothing.
CalculateClassificationMetric(model) ==
    /\ ret' = (IF MetricRaises
               THEN Ret("calculate_classification_metric", <<model>>, "raise", "ValueError",
                        "None", <<>>)
               ELSE Ret("calculate_classification_metric", <<model>>, "ok", "",
                        calculate_classification_metric(model), <<>>))
    /\ UNCHANGED <<attrs, dataframe, X_train, X_test, y_train, y_test, results>>

\* What a fitted regressor has learned, as far as predict shows it: a constant, or
\* the value of the feature a.
Regressors == {"Constant", "Slope"}

RegressionPredict(predictor, row) ==
    CASE predictor = "Constant" -> 1
      [] predictor = "Slope"    -> row.v["a"].num

TrainedRegressors == {[estimator |-> "LinearRegression", predictor |-> p] : p \in Regressors}

\* The number a converted label stands for.
LabelValue(label) == IF label = "1" THEN 1 ELSE 0

Abs(x) == IF x < 0 THEN -x ELSE x

\* The regression metrics raise unless y_test is numeric, and predict raises on data
\* that is None.
RegressionMetricRaises ==
    \/ X_test.none
    \/ \E i \in DOMAIN y_test.rows : y_test.rows[i].v[predicted_column] \notin {"0", "1"}

\* calculate_regression_metric(trained_model): the dict it returns, each error a
\* fraction <<numerator, denominator>>.
calculate_regression_metric(model) ==
    LET err(i) == LabelValue(y_test.rows[i].v[predicted_column])
                    - RegressionPredict(model.predictor, X_test.rows[i])
    IN [mean_squared_error  |-> <<SumSeq([i \in DOMAIN y_test.rows |-> err(i) * err(i)]),
                                  Len(y_test.rows)>>,
        mean_absolute_error |-> <<SumSeq([i \in DOMAIN y_test.rows |-> Abs(err(i))]),
                                  Len(y_test.rows)>>]

CalculateRegressionMetric(model) ==
    /\ ret' = (IF RegressionMetricRaises
               THEN Ret("calculate_regression_metric", <<model>>, "raise", "ValueError",
                        "None", <<>>)
               ELSE Ret("calculate_regression_metric", <<model>>, "ok", "",
                        calculate_regression_metric(model), <<>>))
    /\ UNCHANGED <<attrs, dataframe, X_train, X_test, y_train, y_test, results>>

\* The three models ensemble_classification trains when model_by_name is None, as
\* <<name, fitted algorithm>>: knn and the random forest with the caller's metric,
\* logistic_regression with its defaults.
DefaultModels(scoring_metric) ==
    << <<"KNN", knn(scoring_metric, NoneGrid, "True")>>,
       <<"Logistic Regression", logistic_regression(roc_auc, NoneGrid, "True")>>,
       <<"Random Forest Classifier",
         random_forest_classifier(200, scoring_metric, NoneGrid, "True")>> >>

\* The models trained before the first that raises, and that one.
RECURSIVE TrainedPrefix(_)
TrainedPrefix(models) ==
    IF models = <<>> THEN <<>>
    ELSE IF Head(models)[2].raised # "" THEN <<Head(models)>>
    ELSE <<Head(models)>> \o TrainedPrefix(Tail(models))

\* ensemble_classification as [status, exc, log, results]: log lists the models
\* fitted and the models scored, in order; results is the new self.results.
ensemble_outcome(scoring_metric, model_by_name, learned) ==
    LET Out(status, exc, log, res) == [results |-> res, status |-> status, exc |-> exc, log |-> log]
        trained == IF model_by_name.none THEN TrainedPrefix(DefaultModels(scoring_metric))
                   ELSE <<>>
        fitlog == [i \in DOMAIN trained |->
                      IF trained[i][2].raised = "" THEN <<"fit", trained[i][1]>>
                      ELSE <<"fit raised", trained[i][1]>>]
        items == IF model_by_name.none
                 THEN [i \in DOMAIN trained |->
                          Entry(trained[i][1], trained[i][2].estimator, learned[i])]
                 ELSE model_by_name.items
        scorelog == [i \in DOMAIN items |-> <<"score", items[i].name>>]
    IN IF validate_score_metric_for_number_of_classes(scoring_metric)
       THEN Out("raise", "HealthcareAIError", <<>>, results)
       ELSE IF trained # <<>> /\ trained[Len(trained)][2].raised # ""
       THEN Out("raise", trained[Len(trained)][2].raised, fitlog, results)
       ELSE IF items = <<>>
       THEN Out("raise", "IndexError", fitlog, results)
       ELSE IF MetricRaises
       THEN Out("raise", "ValueError", fitlog \o <<scorelog[1]>>, results)
       ELSE IF scoring_metric.name \notin MetricKeys
       THEN Out("raise", "KeyError", fitlog \o <<scorelog[1]>>, results)
       ELSE LET scores == [i \in DOMAIN items |->
                             ScoreOf(calculate_classification_metric(items[i].model),
                                     scoring_metric)]
                best == BestPosition(scores)
            IN Out("ok", "", fitlog \o scorelog,
                   [none |-> FALSE,
                    best_score |-> scores[best],
                    best_algorithm_name |-> items[best].name,
                    model_scores |-> [i \in DOMAIN items |-> <<items[i].name, scores[i]>>],
                    best_model |-> items[best].model])

\* A direct call of validate_score_metric_for_number_of_classes.
ValidateScoreMetric(metric) ==
    LET raises == validate_score_metric_for_number_of_classes(metric)
    IN /\ ret' = Ret("validate_score_metric_for_number_of_classes", <<metric>>,
                     IF raises THEN "raise" ELSE "ok",
                     IF raises THEN "HealthcareAIError" ELSE "", NoneResults, <<>>)
       /\ UNCHANGED <<attrs, dataframe, X_train, X_test, y_train, y_test, results>>

\* What the default models can have learned: it shows only once all three are fitted.
LearnedChoices(scoring_metric, model_by_name) ==
    IF model_by_name.none
       /\ \A i \in 1..3 : DefaultModels(scoring_metric)[i][2].raised = ""
    THEN [1..3 -> Predictors]
    ELSE {[i \in 1..3 |-> "AlwaysOne"]}

ensemble_classification(scoring_metric, model_by_name) ==
    \E learned \in LearnedChoices(scoring_metric, model_by_name) :
        LET out == ensemble_outcome(scoring_metric, model_by_name, learned)
        IN /\ results' = out.results
           /\ ret' = Ret("ensemble_classification", <<scoring_metric, model_by_name>>,
                         out.status, out.exc,
                         IF out.status = "ok" THEN out.results ELSE NoneResults, out.log)
           /\ UNCHANGED <<attrs, dataframe, X_train, X_test, y_train, y_test>>

----------------------------------------------------------------------------
(* Claims *)

FitMethods == {"logistic_regression", "linear_regression", "knn",
               "random_forest_classifier", "random_forest_regressor"}

\* The index labels of a frame's rows, in order.
IdxOf(frame) == [i \in DOMAIN frame.rows |-> frame.rows[i].idx]

\* The row of df that carries the index label idx.
RowAt(df, idx) == CHOOSE r \in Range(df.rows) : r.idx = idx

\* C1: prepare_randomized_search is a two-way dispatch.  With randomized_search
\* truthy it returns a RandomizedSearchCV around estimator() built with no arguments,
\* with the given scoring metric and grid, n_iter = 2 and cv = 5, whatever the extra
\* keyword arguments are; with randomized_search falsy it returns estimator(**kwargs),
\* whatever the scoring metric and the grid are.
C1_PrepareIsTwoWayDispatch ==
    ret.op = "prepare_randomized_search" =>
        LET c == ret.log[1]
        IN IF c.randomized_search \in {"True", "1", "'yes'"}
           THEN /\ ret.status = "ok"
                /\ ret.value = Algorithm("RandomizedSearchCV", c.estimator, {}, c.scoring_metric,
                                         c.hyperparameter_grid, 2, 5)
           ELSE /\ ret.value = Construct(c.estimator, c.kwargs)
                /\ ret.status = (IF ret.value.raised = "" THEN "ok" ELSE "raise")

\* C1 witness: a truthy value other than True, with extra keyword arguments, gave a search.
C1_Witness ==
    /\ ret.op = "prepare_randomized_search"
    /\ ret.log[1].randomized_search = "1"
    /\ ret.log[1].kwargs = {<<"trees", 200>>}
    /\ ret.value.kind = "RandomizedSearchCV"

\* What a call of data_preparation_pipeline leaves in the object.
PipelineResult ==
    ret.op = "data_preparation_pipeline"
    => /\ ret.status = "ok"
       /\ ret.log = (IF ret.args[1]
                     THEN <<"dts_filter", "grain_column_filter", "imputer",
                            "null_row_filter", "convert_target_to_binary", "dummify">>
                     ELSE <<"dts_filter", "grain_column_filter",
                            "null_row_filter", "convert_target_to_binary", "dummify">>)
       /\ ret.value = dataframe
       /\ Range(dataframe.columns) \cap (DTSColumns \cup {grain_column_name}) = {}
       /\ \A i \in DOMAIN dataframe.rows :
             /\ ~RowHasNull(dataframe, dataframe.rows[i])
             /\ dataframe.rows[i].v[predicted_column] \notin {"Y", "N"}

\* What a call of data_preparation_pipeline does to the rows: without imputation the
\* rows with a missing feature are removed and the others keep their cells; with
\* imputation every row is kept when each feature column has a value to fill with.
PipelineStep ==
    ret'.op = "data_preparation_pipeline"
    => LET features == Range(dataframe'.columns) \ {predicted_column}
           complete == {r \in Range(dataframe.rows) : \A c \in features : ~IsNaN(r.v[c])}
           fillable == \A c \in features : \E r \in Range(dataframe.rows) : ~IsNaN(r.v[c])
       IN /\ UNCHANGED <<attrs, X_train, X_test, y_train, y_test, results>>
          /\ dataframe'.columns =
                FilterSeq(dataframe.columns, DTSColumns \cup {grain_column_name})
          /\ \A r \in complete : \A c \in features : RowAt(dataframe', r.idx).v[c] = r.v[c]
          /\ IF ret'.args[1] /\ fillable
             THEN IdxOf(dataframe') = IdxOf(dataframe)
             ELSE IF ret'.args[1]
             THEN dataframe'.rows = <<>>
             ELSE Range(IdxOf(dataframe')) = {r.idx : r \in complete}

\* C6: data_preparation_pipeline(impute) runs the date-time-suffix filter, the grain
\* filter, the imputer (only when impute is on), the null-row filter, the target
\* conversion and the dummy-variable step, in this order; it stores the result in
\* self.dataframe, returns it, and changes no other attribute; rows with nulls are
\* filled when impute is on and removed when it is off.
C6_PipelineOrderAndFrame == []PipelineResult /\ [][PipelineStep]_vars

C6_Witness ==
    /\ ret.op = "data_preparation_pipeline" /\ ret.args[1]
    /\ Len(dataframe.rows) >= 3
    /\ \E i \in DOMAIN dataframe.rows :
          dataframe.rows[i].v["a"] = Raw(1) /\ dataframe.rows[i].v[predicted_column] = "0"

\* C7: with randomized_search=False every keyword a fitting method forwards
\* (n_neighbors, cv, trees) is a constructor parameter of the estimator it names, so
\* on a split object the call returns a fitted plain estimator, and a random forest
\* with the requested number of trees.
C7_ForwardedKeywordsAccepted ==
    (/\ ret.op \in FitMethods
     /\ ret.log # <<>>
     /\ ret.log[1].randomized_search = "False"
     /\ ~X_train.none)
    => /\ {kw[1] : kw \in ret.log[1].kwargs} \subseteq ConstructorParams(ret.log[1].estimator)
       /\ ret.status = "ok"
       /\ ret.value.fitted
       /\ ret.value.kind = ret.log[1].estimator
       /\ (ret.op \in {"random_forest_classifier", "random_forest_regressor"}
             => <<"n_estimators", ret.args[4]>> \in ret.value.params)

\* C8: every fitting method hands prepare_randomized_search a defined grid: its
\* default grid when the caller gives None (logistic_regression and linear_regression
\* as well as knn and the random forests), the caller's grid unchanged otherwise.
C8_GridHandedOnIsDefined ==
    (ret.op \in FitMethods /\ ret.log # <<>>)
    => IF ret.args[2].none
       THEN ~ret.log[1].hyperparameter_grid.none
       ELSE ret.log[1].hyperparameter_grid = ret.args[2]

\* C2: ensemble_classification with model_by_name left as None, on a split object
\* whose test labels can be scored and with a metric the validation accepts
\* (the default 'roc_auc' included), completes without error, scores KNN, Logistic
\* Regression and Random Forest Classifier on the test partition, and returns a
\* result whose best_model is the model with the highest score.
C2_EnsembleDefaultPicksBest ==
    (/\ ret.op = "ensemble_classification"
     /\ ret.args[2].none
     /\ ~X_train.none
     /\ ~MetricRaises
     /\ ~validate_score_metric_for_number_of_classes(ret.args[1]))
    => /\ ret.status = "ok"
       /\ ret.value = results
       /\ [i \in DOMAIN results.model_scores |-> results.model_scores[i][1]]
             = <<"KNN", "Logistic Regression", "Random Forest Classifier">>
       /\ \A i \in DOMAIN results.model_scores :
             LessEq(results.model_scores[i][2], results.best_score)
       /\ \E i \in DOMAIN results.model_scores :
             results.model_scores[i] = <<results.best_algorithm_name, results.best_score>>

\* C3: the validation raises HealthcareAIError whenever the predicted column has more
\* than two classes and the metric is 'roc_auc', in ensemble_classification before
\* any model is fitted or scored; it raises nothing with exactly two classes or
\* another metric.
C3_ValidationRaisesOnRocAuc ==
    LET classes == count_unique_elements_in_column(dataframe, predicted_column)
        checked == ret.op \in {"validate_score_metric_for_number_of_classes",
                               "ensemble_classification"}
    IN /\ (checked /\ classes > 2 /\ ret.args[1].name = "roc_auc")
            => (ret.status = "raise" /\ ret.exc = "HealthcareAIError" /\ ret.log = <<>>)
       /\ (checked /\ (classes = 2 \/ ret.args[1].name # "roc_auc"))
            => ret.exc # "HealthcareAIError"

\* Every row of the dataframe is in exactly one of the two partitions.
IsPartition(train, test, df) ==
    LET both == IdxOf(train) \o IdxOf(test)
    IN /\ Len(both) = Len(df.rows)
       /\ Range(both) = Range(IdxOf(df))
       /\ \A i, j \in DOMAIN both : i # j => both[i] # both[j]

\* X holds the feature values and y the predicted column of the same rows of df.
HoldsRowsOf(X, y, df) ==
    /\ predicted_column \notin Range(X.columns)
    /\ X.columns = FilterSeq(df.columns, {predicted_column})
    /\ y.columns = <<predicted_column>>
    /\ IdxOf(y) = IdxOf(X)
    /\ \A i \in DOMAIN X.rows :
          /\ \A c \in Range(X.columns) : X.rows[i].v[c] = RowAt(df, X.rows[i].idx).v[c]
          /\ y.rows[i].v[predicted_column] = RowAt(df, X.rows[i].idx).v[predicted_column]

\* The rows chosen depend on the number of rows only: the shuffle of seed 0.
DrawnBySeedZero(train, test, df) ==
    LET n == Len(df.rows)
        perm == ShufflePermutation(n)
    IN /\ IdxOf(test) = [i \in 1..n_test(n) |-> df.rows[perm[i]].idx]
       /\ IdxOf(train) = [i \in 1..(n - n_test(n)) |-> df.rows[perm[n_test(n) + i]].idx]

C5_PreparedAtConstruction ==
    ret.op = "__init__"
    => /\ ~X_train.none /\ ~X_test.none /\ ~y_train.none /\ ~y_test.none
       /\ Range(dataframe.columns) \cap (DTSColumns \cup {grain_column_name}) = {}
       /\ \A i \in DOMAIN dataframe.rows : ~RowHasNull(dataframe, dataframe.rows[i])

\* A resampling call replaces the dataframe by rows taken from it, with the same
\* feature columns and the predicted column, and leaves the partitions alone.
SamplingStep ==
    ret'.op \in {"under_sampling", "over_sampling"}
    => /\ UNCHANGED <<attrs, X_train, X_test, y_train, y_test, results>>
       /\ IF ret'.status = "ok"
          THEN /\ Range(dataframe'.columns) = Range(dataframe.columns)
               /\ dataframe'.columns = FilterSeq(dataframe.columns, {predicted_column})
                                          \o <<predicted_column>>
               /\ \A i \in DOMAIN dataframe'.rows :
                     \E j \in DOMAIN dataframe.rows : dataframe'.rows[i].v = dataframe.rows[j].v
          ELSE dataframe' = dataframe

\* The partitions take up the resampled rows when the split is called afterwards.
SplitAfterSamplingStep ==
    (ret'.op = "train_test_split" /\ ret'.status = "ok")
    => /\ dataframe' = dataframe
       /\ IsPartition(X_train', X_test', dataframe)
       /\ HoldsRowsOf(X_train', y_train', dataframe)
       /\ HoldsRowsOf(X_test', y_test', dataframe)

\* C9: under_sampling and over_sampling replace self.dataframe, keeping the feature
\* columns and the predicted column, and leave X_train, X_test, y_train and y_test
\* unchanged; the partitions hold the resampled rows only once train_test_split is
\* called after the resampling.
C9_SamplingLeavesPartitions == [][SamplingStep /\ SplitAfterSamplingStep]_vars

C9_Witness ==
    /\ ret.op = "over_sampling" /\ ret.status = "ok"
    /\ ~X_train.none
    /\ Len(dataframe.rows) > Len(X_train.rows) + Len(X_test.rows)

\* The named columns of a partition after scaling with the statistics of X_train:
\* every cell is k*x - S over sqrt(k*Q - S*S), k, S and Q being the number, sum and
\* sum of squares of the train cells; index, column names and other columns are kept.
ScaledByTrain(before, after, columns_to_scale) ==
    /\ after.columns = before.columns
    /\ IdxOf(after) = IdxOf(before)
    /\ \A i \in DOMAIN before.rows : \A c \in Range(before.columns) :
          IF c \in Range(columns_to_scale)
          THEN after.rows[i].v[c] = ScalerTransformCell(ScalerFit(X_train)[c], before.rows[i].v[c])
          ELSE after.rows[i].v[c] = before.rows[i].v[c]

\* A column scaled with its own mean is centred: its numerators add up to zero.
Centred(frame, columns_to_scale) ==
    \A c \in Range(columns_to_scale) :
        SumSeq([i \in DOMAIN frame.rows |-> frame.rows[i].v[c].num]) = 0

ScalingStep ==
    ret'.op = "feature_scaling"
    => LET columns_to_scale == ret'.args[1]
       IN /\ UNCHANGED <<attrs, dataframe, y_train, y_test, results>>
          /\ X_train'.columns = X_train.columns /\ IdxOf(X_train') = IdxOf(X_train)
          /\ X_test'.columns = X_test.columns /\ IdxOf(X_test') = IdxOf(X_test)
          /\ X_train.none => (ret'.status = "raise" /\ UNCHANGED <<X_train, X_test>>)
          /\ ret'.status = "ok"
                => /\ ~X_train.none
                   /\ ScaledByTrain(X_train, X_train', columns_to_scale)
                   /\ ScaledByTrain(X_test, X_test', columns_to_scale)
                   /\ ~HasMissing(X_train, columns_to_scale) => Centred(X_train', columns_to_scale)
          /\ (~X_train.none /\ Range(columns_to_scale) \subseteq Range(X_train.columns)
                /\ ~HasMissing(X_train, columns_to_scale)
                /\ ~HasMissing(X_test, columns_to_scale))
                => ret'.status = "ok"

\* C10: feature_scaling called after train_test_split fits the scaler on the X_train
\* subset only and applies it to X_train and X_test, changes only the columns named,
\* keeps the row index and the column names of both partitions and leaves y_train,
\* y_test and self.dataframe unchanged; called while X_train is None it raises and
\* changes no attribute.
C10_ScalingFitsOnTrain == [][ScalingStep]_vars

C10_Witness ==
    /\ ret.op = "feature_scaling" /\ ret.status = "ok" /\ ret.args[1] = <<"a">>
    /\ Len(X_train.rows) >= 2
    /\ \E i \in DOMAIN X_train.rows : X_train.rows[i].v["a"].rad > 1
    /\ SumSeq([i \in DOMAIN X_test.rows |-> X_test.rows[i].v["a"].num]) # 0
    /\ "id" \in Range(X_train.columns)

\* The methods that fit a model and the methods that score one.
ScoreMethods == {"calculate_classification_metric", "calculate_regression_metric"}

\* The rows of the test partition on which the model's prediction is the label.
TestAgreements(model) ==
    {i \in DOMAIN X_test.rows :
        Predict(model.predictor, X_test.rows[i]) = y_test.rows[i].v[predicted_column]}

\* The test rows that carry the given label.
TestLabelled(label) == {i \in DOMAIN y_test.rows : y_test.rows[i].v[predicted_column] = label}

\* What a fitting or scoring call returns: an algorithm fitted on the train partition,
\* scores computed from the test partition.
FitScoreResult ==
    /\ (ret.op \in FitMethods /\ ret.status = "ok")
          => /\ ~X_train.none /\ ~y_train.none
             /\ ret.value.fitted
             /\ ret.value.fit_X = X_train
             /\ ret.value.fit_y = y_train
    /\ (ret.op \in FitMethods /\ ret.status = "raise") => ~ret.value.fitted
    /\ (ret.op \in FitMethods /\ ~X_test.none) => X_test.columns = X_train.columns
    /\ (ret.op = "calculate_classification_metric" /\ ret.status = "ok")
          => LET agree == TestAgreements(ret.args[1])
                 P == TestLabelled("1")
                 N == TestLabelled("0")
             IN /\ ret.value.accuracy = <<Cardinality(agree), Len(X_test.rows)>>
                /\ ret.value.roc_auc_score =
                      <<Cardinality(agree \cap P) * Cardinality(N)
                           + Cardinality(agree \cap N) * Cardinality(P),
                        2 * Cardinality(P) * Cardinality(N)>>
    /\ (ret.op = "calculate_regression_metric" /\ ret.status = "ok")
          => LET err == [i \in DOMAIN X_test.rows |->
                            LabelValue(y_test.rows[i].v[predicted_column])
                              - RegressionPredict(ret.args[1].predictor, X_test.rows[i])]
             IN /\ ret.value.mean_squared_error =
                      <<SumSeq([i \in DOMAIN err |-> err[i] * err[i]]), Len(y_test.rows)>>
                /\ ret.value.mean_absolute_error =
                      <<SumSeq([i \in DOMAIN err |-> Abs(err[i])]), Len(y_test.rows)>>

\* A fitting or scoring call assigns no attribute.
FitScoreStep ==
    ret'.op \in FitMethods \cup ScoreMethods
    => UNCHANGED <<attrs, dataframe, X_train, X_test, y_train, y_test, results>>

\* C11: knn, logistic_regression, linear_regression, random_forest_classifier and
\* random_forest_regressor fit on X_train and y_train only and return the algorithm;
\* calculate_classification_metric and calculate_regression_metric predict on X_test
\* and compare with y_test only; none of them changes self.dataframe, the four
\* partitions or self.results.
C11_TrainAndTestNeverMixed == []FitScoreResult /\ [][FitScoreStep]_vars

C11_Witness ==
    /\ ret.op = "knn" /\ ret.status = "ok"
    /\ ret.value.fit_X = X_train /\ ret.value.fit_y = y_train
    /\ Len(X_train.rows) > Len(X_test.rows)
    /\ ~results.none

----------------------------------------------------------------------------
(* Specifications *)

\* The life cycle of the object: preparation, resampling, split, scaling.
Next ==
    \/ \E impute \in BOOLEAN : data_preparation_pipeline(impute)
    \/ train_test_split
    \/ \E random_state \in RandomStates : under_sampling(random_state)
    \/ \E random_state \in RandomStates : over_sampling(random_state)
    \/ \E columns_to_scale \in ColumnLists : feature_scaling(columns_to_scale)

Spec == Init /\ [][Next]_vars

\* The module function prepare_randomized_search, called over its inputs.
NextPrepare ==
    \E e \in Estimators, m \in Metrics, g \in Grids, rs \in SearchFlags, kw \in KwargSets :
        PrepareRandomizedSearch(e, m, g, rs, kw)

SpecPrepare == InitWith({OneDataframe}) /\ [][NextPrepare]_vars

\* The fitting and scoring methods, called on objects before and after preparation,
\* resampling and split.
NextModels ==
    \/ data_preparation_pipeline(TRUE)
    \/ over_sampling(0)
    \/ train_test_split
    \/ \E model \in TrainedClassifiers : CalculateClassificationMetric(model)
    \/ \E model \in TrainedRegressors : CalculateRegressionMetric(model)
    \/ \E m \in Metrics, d \in ModelDicts : ensemble_classification(m, d)
    \/ \E m \in Metrics, g \in Grids, rs \in {"True", "False"} : LogisticRegression(m, g, rs)
    \/ \E m \in Metrics, g \in Grids, rs \in {"True", "False"} : LinearRegression(m, g, rs)
    \/ \E m \in Metrics, g \in Grids, rs \in {"True", "False"} : Knn(m, g, rs)
    \/ \E t \in Trees, m \in Metrics, g \in Grids, rs \in {"True", "False"} :
          RandomForestClassifier(t, m, g, rs)
    \/ \E t \in Trees, m \in Metrics, g \in Grids, rs \in {"True", "False"} :
          RandomForestRegressor(t, m, g, rs)

SpecModels == InitWith(SampleDataframes) /\ [][NextModels]_vars

\* ensemble_classification, called on objects at every stage of preparation.
NextEnsemble ==
    \/ \E impute \in BOOLEAN : data_preparation_pipeline(impute)
    \/ over_sampling(0)
    \/ train_test_split
    \/ \E m \in Metrics : ValidateScoreMetric(m)
    \/ \E m \in Metrics, d \in ModelDicts : ensemble_classification(m, d)

SpecEnsemble == InitWith(SampleDataframes) /\ [][NextEnsemble]_vars

====
